---- MODULE Spec2Model ----
(***************************************************************************)
(* The two scripts of the repository as one state machine.                 *)
(*   get_json_360.py : the metadata harvester (get_asset_list,             *)
(*                     get_asset_info, save_to_json, main)                 *)
(*   crawl_360.py    : the asset downloader (get_asset_list,               *)
(*                     get_hdri_link, download_file, main)                 *)
(* A behaviour runs one of the two scripts (variable script).  The remote  *)
(* API is the environment: every response is chosen with \E from the       *)
(* outcomes the requests library can hand back (a transport exception, a   *)
(* status code, a body).                                                   *)
(***************************************************************************)
EXTENDS Integers, Sequences, FiniteSets, TLC

VARIABLES
    script,       \* which script this process runs
    pc,           \* position of main()
    idx,          \* 0-based position of the for loop of main() in its slice
    list_resp,    \* observation: how the /assets request of this run ended
    fetched,      \* observation: what main handed to get_asset_info
                  \* (ids) or download_file (urls) in this run, in order
    \* ---- get_json_360.py
    hdri_assets,  \* main: keys of the dict returned by get_asset_list, in order
    assets_data,  \* main: asset id -> record
    max_retries,  \* get_asset_info: parameter
    cpc,          \* get_asset_info: position inside the call
    asset_id,     \* get_asset_info: local (parameter, rewritten by line 58)
    attempt,      \* get_asset_info: loop variable
    response,     \* get_asset_info: response of the last info request
    data,         \* get_asset_info: parsed info body
    files_data,   \* get_asset_info: parsed file listing
    asset_info,   \* value returned by get_asset_info
    reqs,         \* observation: requests issued by the latest attempt
    sleeps,       \* observation: time.sleep(1) calls inside the current call
    ended,        \* observation: the ways the finished attempts of this call
                  \* ended
    got,          \* observation: ids whose call returned a record
    pauses,       \* observation: time.sleep(1) calls of main
    saved,        \* observation: the collections passed to save_to_json
    \* ---- crawl_360.py
    assets,       \* main: list returned by get_asset_list (after the slice)
    disk,         \* SAVE_DIR: filename -> number of chunks in the file
    dpc,          \* download_file: position inside the call
    url,          \* download_file: parameter
    r,            \* download_file: streaming response
    gets,         \* observation: url -> number of GET requests issued for it
    succeeded,    \* observation: urls a call received 200 for and wrote fully
    last_msg,     \* observation: what the last download_file call printed
    runs          \* number of invocations of the script so far

vars == <<script, pc, idx, list_resp, fetched, hdri_assets, assets_data,
          max_retries, cpc, asset_id, attempt, response, data, files_data,
          asset_info, reqs, sleeps, ended, got, pauses, saved, assets, disk,
          dpc, url, r, gets, succeeded, last_msg, runs>>

harvestOnly == <<hdri_assets, assets_data, max_retries, got, pauses, saved>>
callVars == <<cpc, asset_id, attempt, response, data, files_data, asset_info,
              reqs, sleeps, ended>>
crawlVars == <<assets, disk, dpc, url, r, gets, succeeded, last_msg, runs>>

----------------------------------------------------------------------------
(* Bounds of the model *)

\* longest listing the API answers with
MaxList == 3
\* largest max_retries a call of get_asset_info is given (the default, 3)
MaxRetries == 3
\* stands for the slice bounds of the two main loops ([:843], [:10]), scaled
\* so that a listing longer than the slice is reachable
SliceCap == 2
\* chunks in a served file body
BodyChunks == 2
\* invocations of the downloader against the same SAVE_DIR
MaxRuns == 2
\* file_info entries in a file listing
MaxFiles == 3

----------------------------------------------------------------------------
(* Values *)

None == [none |-> TRUE]

\* Asset identifiers are opaque, unique keys; a listing holds a prefix of
\* these names (not in alphabetical order).
AssetNames == <<"sky", "dawn", "pier", "lake", "moor">>

Take(s, n) == SubSeq(s, 1, IF Len(s) < n THEN Len(s) ELSE n)

Range(s) == {s[i] : i \in 1..Len(s)}

----------------------------------------------------------------------------
(* The remote API: what a request can come back with *)

\* requests raised a transport-level exception (connection, DNS, timeout)
TransportError == [exception |-> "RequestException"]

\* A response: its status code and what response.json() finds in the body:
\* "object" (a JSON mapping), "array" (valid JSON, no mapping), "garbage"
\* (json() raises), "none" (an error page nobody parses).
InfoResponses ==
    { [status_code |-> 200, body |-> "object"],
      [status_code |-> 200, body |-> "array"],
      [status_code |-> 200, body |-> "garbage"],
      [status_code |-> 404, body |-> "none"],
      [status_code |-> 500, body |-> "none"] }

\* file_info of one format of one resolution: its 'resolution' key may be
\* missing, or hold an empty value, or a [w, h] pair
NoResolutionKey == [has_resolution |-> FALSE, resolution |-> <<>>]
FileInfo(res) == [has_resolution |-> TRUE, resolution |-> res]

\* parsed /files body: a mapping with or without the key 'hdri'; under it
\* resolution -> format -> file_info, kept in iteration order
EmptyDict == [has_hdri |-> FALSE, hdri |-> <<>>]
Listing(hdri) == [has_hdri |-> TRUE, hdri |-> hdri]

\* file listings the harvester run is served
HarvestListings ==
    { EmptyDict,
      Listing(<< <<FileInfo(<<1920, 1080>>)>>,
                 <<FileInfo(<<3840, 2160>>), NoResolutionKey>> >>) }

FilesResponses ==
    { [status_code |-> 200, body |-> "garbage", listing |-> EmptyDict],
      [status_code |-> 404, body |-> "none", listing |-> EmptyDict],
      [status_code |-> 500, body |-> "none", listing |-> EmptyDict] }
    \cup { [status_code |-> 200, body |-> "object", listing |-> l] :
             l \in HarvestListings }

\* asset_data of one entry of the /assets mapping
AssetDataKinds ==
    { [isdict |-> TRUE, type |-> 0],
      [isdict |-> TRUE, type |-> 1],
      [isdict |-> FALSE] }

\* /assets answers: a failure, or a mapping whose keys are a prefix of
\* AssetNames (keys of a JSON mapping are distinct)
ListingResponses ==
    { [kind |-> "exc"], [kind |-> "status"], [kind |-> "garbage"],
      [kind |-> "array"] }
    \cup UNION { { [kind |-> "mapping", keys |-> Take(AssetNames, k),
                      values |-> v] : v \in [1..k -> AssetDataKinds] } :
                  k \in 0..MaxList }

----------------------------------------------------------------------------
(* get_json_360.py: pure parts *)

InfoUrl(id) == <<"info", id>>
FilesUrl(id) == <<"files", id>>

FallbackId(id) == id \o "_4k"

IsHdri(asset_data) == asset_data.isdict /\ asset_data.type = 0

RECURSIVE FilterHdri(_, _)
FilterHdri(keys, values) ==
    IF keys = <<>> THEN <<>>
    ELSE (IF IsHdri(Head(values)) THEN <<Head(keys)>> ELSE <<>>)
         \o FilterHdri(Tail(keys), Tail(values))

\* get_asset_list of get_json_360.py: the keys of hdri_assets in order, and
\* [] (as empty as {}) on any exception
GetAssetList(resp) ==
    IF resp.kind = "mapping"
    THEN FilterHdri(resp.keys, resp.values)
    ELSE <<>>

\* the comparison of line 81 done on the width alone
BetterByWidth(w, h, max_res) == w > max_res[1]

HasResolution(file_info) ==
    file_info.has_resolution /\ file_info.resolution # <<>>

Better(w, h, max_res) == w * h > max_res[1] * max_res[2]

RECURSIVE ScanFormats(_, _)
ScanFormats(formats, max_res) ==
    IF formats = <<>> THEN max_res
    ELSE LET file_info == Head(formats)
             next == IF HasResolution(file_info)
                        /\ Better(file_info.resolution[1],
                                  file_info.resolution[2], max_res)
                     THEN file_info.resolution
                     ELSE max_res
         IN ScanFormats(Tail(formats), next)

RECURSIVE ScanHdri(_, _)
ScanHdri(hdri, max_res) ==
    IF hdri = <<>> THEN max_res
    ELSE ScanHdri(Tail(hdri), ScanFormats(Head(hdri), max_res))

ExtractMaxRes(listing) ==
    IF listing.has_hdri THEN ScanHdri(listing.hdri, <<0, 0>>)
    ELSE <<0, 0>>

MaxResolution(max_res) ==
    IF max_res # <<0, 0>> THEN max_res ELSE <<8192, 4096>>

\* the record of lines 91-103; the fields copied from the info body with a
\* default (name, authors, tags, ...) are not modelled
AssetInfo(listing) ==
    [ type |-> 0,
      max_resolution |-> MaxResolution(ExtractMaxRes(listing)),
      dimensions |-> <<30000, 30000>> ]

\* the loop of main without its slice
NoSlice(s) == s

Slice(s) == Take(s, SliceCap)

----------------------------------------------------------------------------
(* get_json_360.py: get_asset_info, one action per step of the loop body *)

\* line 66 left out: no status is raised for
NeverRaises(resp) == FALSE

\* line 108 off by one
LastAttemptOffByOne == attempt = max_retries

IsNotFound(resp) == resp.status_code = 404

\* raise_for_status raises HTTPError for a 4xx or 5xx status
RaisesForStatus(resp) == resp.status_code >= 400

LastAttempt == attempt = max_retries - 1

\* lines 107-112: except requests.exceptions.RequestException
ExceptRequestException(why) ==
    /\ ended' = ended \cup {why}
    /\ IF LastAttempt
       THEN /\ cpc' = "returned"
            /\ asset_info' = None
            /\ UNCHANGED <<sleeps, attempt>>
       ELSE /\ sleeps' = sleeps + 1
            /\ attempt' = attempt + 1
            /\ cpc' = "for"
            /\ UNCHANGED asset_info

\* lines 113-115: except Exception
ExceptException(why) ==
    /\ ended' = ended \cup {why}
    /\ cpc' = "returned"
    /\ asset_info' = None
    /\ UNCHANGED <<sleeps, attempt>>

\* response.json() raised: requests.exceptions.JSONDecodeError, a
\* RequestException from requests 2.27 on and a plain ValueError before
JsonRaises ==
    \/ ExceptRequestException("body")
    \/ ExceptException("body")

\* line 49: for attempt in range(max_retries); falling off the loop returns
\* None
ForAttempt ==
    /\ script = "get_json_360" /\ cpc = "for"
    /\ IF attempt < max_retries
       THEN cpc' = "info" /\ reqs' = <<>> /\ UNCHANGED asset_info
       ELSE cpc' = "returned" /\ asset_info' = None /\ UNCHANGED reqs
    /\ UNCHANGED <<asset_id, attempt, response, data, files_data, sleeps,
                   ended>>
    /\ UNCHANGED <<script, pc, idx, list_resp, fetched>>
    /\ UNCHANGED harvestOnly
    /\ UNCHANGED crawlVars

\* lines 52-53
RequestInfo ==
    /\ script = "get_json_360" /\ cpc = "info"
    /\ \E o \in InfoResponses \cup {TransportError} :
         /\ reqs' = Append(reqs, [url |-> InfoUrl(asset_id), resp |-> o])
         /\ IF o = TransportError
            THEN ExceptRequestException("transport") /\ UNCHANGED response
            ELSE /\ response' = o
                 /\ cpc' = "got_info"
                 /\ UNCHANGED <<asset_info, sleeps, attempt, ended>>
    /\ UNCHANGED <<asset_id, data, files_data>>
    /\ UNCHANGED <<script, pc, idx, list_resp, fetched>>
    /\ UNCHANGED harvestOnly
    /\ UNCHANGED crawlVars

\* lines 56-60
Fallback ==
    /\ script = "get_json_360" /\ cpc = "got_info"
    /\ IF IsNotFound(response)
       THEN /\ asset_id' = FallbackId(asset_id)
            /\ \E o \in InfoResponses \cup {TransportError} :
                 /\ reqs' = Append(reqs, [url |-> InfoUrl(asset_id'),
                                          resp |-> o])
                 /\ IF o = TransportError
                    THEN /\ ExceptRequestException("transport")
                         /\ UNCHANGED response
                    ELSE /\ response' = o
                         /\ cpc' = "checked"
                         /\ UNCHANGED <<asset_info, sleeps, attempt, ended>>
       ELSE /\ cpc' = "checked"
            /\ UNCHANGED <<asset_id, reqs, response, asset_info, sleeps,
                           attempt, ended>>
    /\ UNCHANGED <<data, files_data>>
    /\ UNCHANGED <<script, pc, idx, list_resp, fetched>>
    /\ UNCHANGED harvestOnly
    /\ UNCHANGED crawlVars

\* lines 62-64 left out: the second 404 reaches raise_for_status
NotFoundRetries == ExceptRequestException("status")

\* lines 62-64: still 404 after the fallback
NotFoundReturn ==
    /\ cpc' = "returned"
    /\ asset_info' = None
    /\ UNCHANGED <<sleeps, attempt, ended>>

\* lines 62-67
CheckInfo ==
    /\ script = "get_json_360" /\ cpc = "checked"
    /\ \/ /\ IsNotFound(response)
          /\ NotFoundReturn
          /\ UNCHANGED data
       \/ /\ ~IsNotFound(response) /\ RaisesForStatus(response)
          /\ ExceptRequestException("status")
          /\ UNCHANGED data
       \/ /\ ~IsNotFound(response) /\ ~RaisesForStatus(response)
          /\ response.body = "garbage"
          /\ JsonRaises
          /\ UNCHANGED data
       \/ /\ ~IsNotFound(response) /\ ~RaisesForStatus(response)
          /\ response.body # "garbage"
          /\ data' = response.body
          /\ cpc' = "files"
          /\ UNCHANGED <<asset_info, sleeps, attempt, ended>>
    /\ UNCHANGED <<asset_id, response, files_data, reqs>>
    /\ UNCHANGED <<script, pc, idx, list_resp, fetched>>
    /\ UNCHANGED harvestOnly
    /\ UNCHANGED crawlVars

\* line 72: files_response.json() if files_response.status_code == 200 else {}
FilesOk(resp) == resp.status_code = 200

\* line 72 replaced by files_response.raise_for_status()
FilesNotOkRaises ==
    /\ ExceptRequestException("status")
    /\ UNCHANGED files_data

\* line 72, the else: a listing that did not answer 200 counts as {}
FilesNotOk ==
    /\ files_data' = EmptyDict
    /\ cpc' = "build"
    /\ UNCHANGED <<asset_info, sleeps, attempt, ended>>

\* lines 70-72
RequestFiles ==
    /\ script = "get_json_360" /\ cpc = "files"
    /\ \E o \in FilesResponses \cup {TransportError} :
         /\ reqs' = Append(reqs, [url |-> FilesUrl(asset_id), resp |-> o])
         /\ \/ /\ o = TransportError
               /\ ExceptRequestException("transport")
               /\ UNCHANGED files_data
            \/ /\ o # TransportError /\ ~FilesOk(o)
               /\ FilesNotOk
            \/ /\ o # TransportError /\ FilesOk(o) /\ o.body = "garbage"
               /\ JsonRaises
               /\ UNCHANGED files_data
            \/ /\ o # TransportError /\ FilesOk(o) /\ o.body # "garbage"
               /\ files_data' = o.listing
               /\ cpc' = "build"
               /\ UNCHANGED <<asset_info, sleeps, attempt, ended>>
    /\ UNCHANGED <<asset_id, response, data>>
    /\ UNCHANGED <<script, pc, idx, list_resp, fetched>>
    /\ UNCHANGED harvestOnly
    /\ UNCHANGED crawlVars

\* lines 74-105; an info body that is no mapping has no .get (line 92)
BuildRecord ==
    /\ script = "get_json_360" /\ cpc = "build"
    /\ IF data = "object"
       THEN /\ asset_info' = AssetInfo(files_data)
            /\ cpc' = "returned"
            /\ UNCHANGED <<sleeps, attempt, ended>>
       ELSE ExceptException("unexpected")
    /\ UNCHANGED <<asset_id, response, data, files_data, reqs>>
    /\ UNCHANGED <<script, pc, idx, list_resp, fetched>>
    /\ UNCHANGED harvestOnly
    /\ UNCHANGED crawlVars

----------------------------------------------------------------------------
(* get_json_360.py: main *)

\* a returned record is a non-empty dict, None is falsy
Truthy(value) == value # None

Store(collection, key, value) ==
    [k \in DOMAIN collection \cup {key} |->
        IF k = key THEN value ELSE collection[k]]

\* locals of a call that is not running
NoCall ==
    /\ cpc' = "idle"
    /\ asset_id' = ""
    /\ attempt' = 0
    /\ response' = None
    /\ data' = "none"
    /\ files_data' = EmptyDict
    /\ asset_info' = None
    /\ reqs' = <<>>
    /\ sleeps' = 0
    /\ ended' = {}

\* lines 131-135
HarvestList ==
    /\ script = "get_json_360" /\ pc = "start"
    /\ \E resp \in ListingResponses :
         /\ list_resp' = resp.kind
         /\ hdri_assets' = GetAssetList(resp)
         /\ pc' = IF hdri_assets' = <<>> THEN "done" ELSE "loop"
    /\ UNCHANGED <<script, idx, assets_data, max_retries, fetched, got,
                   pauses, saved>>
    /\ UNCHANGED callVars
    /\ UNCHANGED crawlVars

\* lines 143-145: the next identifier of the slice is handed to
\* get_asset_info
HarvestCall ==
    /\ script = "get_json_360" /\ pc = "loop"
    /\ idx < Len(Slice(hdri_assets))
    /\ pc' = "call"
    /\ cpc' = "for"
    /\ asset_id' = Slice(hdri_assets)[idx + 1]
    /\ fetched' = Append(fetched, asset_id')
    /\ attempt' = 0
    /\ UNCHANGED <<response, data, files_data, asset_info, reqs, sleeps,
                   ended>>
    /\ UNCHANGED <<script, idx, hdri_assets, assets_data, max_retries, got,
                   pauses, saved, list_resp>>
    /\ UNCHANGED crawlVars

\* lines 147-155: the call has returned
HarvestStore ==
    /\ script = "get_json_360" /\ pc = "call" /\ cpc = "returned"
    /\ LET key == Slice(hdri_assets)[idx + 1]
       IN /\ assets_data' = IF Truthy(asset_info)
                            THEN Store(assets_data, key, asset_info)
                            ELSE assets_data
          /\ got' = IF asset_info # None THEN got \cup {key} ELSE got
    /\ pauses' = pauses + 1
    /\ idx' = idx + 1
    /\ pc' = "loop"
    /\ NoCall
    /\ UNCHANGED <<script, hdri_assets, max_retries, fetched, saved,
                   list_resp>>
    /\ UNCHANGED crawlVars

\* line 160: if assets_data
ShouldSave(collection) == DOMAIN collection # {}

\* lines 157-175; save_to_json returns True or False and never raises
HarvestFinish ==
    /\ script = "get_json_360" /\ pc = "loop"
    /\ idx >= Len(Slice(hdri_assets))
    /\ saved' = IF ShouldSave(assets_data) THEN Append(saved, assets_data)
                ELSE saved
    /\ pc' = "done"
    /\ UNCHANGED <<script, idx, hdri_assets, assets_data, max_retries,
                   fetched, got, pauses, list_resp>>
    /\ UNCHANGED callVars
    /\ UNCHANGED crawlVars

----------------------------------------------------------------------------
(* crawl_360.py *)

\* line 19 left out: the error page of a failed listing is parsed, and its
\* key taken for an asset
CrawlAssetListNoRaise(resp) ==
    IF resp.kind = "mapping" THEN resp.keys
    ELSE IF resp.kind = "status" THEN <<"message">>
    ELSE <<>>

\* get_asset_list of crawl_360.py: list(response.json().keys()), and [] on
\* any exception
CrawlAssetList(resp) ==
    IF resp.kind = "mapping" THEN resp.keys ELSE <<>>

\* a URL under DOWNLOAD_URL, as its path segments
GetHdriLink(asset_name, resolution) ==
    [ hdr |-> <<"hdr", resolution,
                asset_name \o "_" \o resolution \o ".hdr">>,
      exr |-> <<"exr", resolution,
                asset_name \o "_" \o resolution \o ".exr">>,
      jpg |-> <<"jpg", resolution,
                asset_name \o "_" \o resolution \o ".jpg">> ]

\* line 38: url.split("/")[-1]
Filename(link) == link[Len(link)]

\* line 40 looking the file up outside save_dir
NeverExists(dir, filename) == FALSE

\* line 40: os.path.exists(path)
Exists(dir, filename) == filename \in DOMAIN dir

Count(f, k) == IF k \in DOMAIN f THEN f[k] ELSE 0

DownloadResponses ==
    { [status_code |-> 200], [status_code |-> 404], [status_code |-> 500] }

NoDownload ==
    /\ dpc' = "idle"
    /\ url' = <<>>
    /\ r' = None

\* lines 58-64
CrawlList ==
    /\ script = "crawl_360" /\ pc = "start"
    /\ \E resp \in ListingResponses :
         /\ list_resp' = resp.kind
         /\ assets' = Slice(CrawlAssetList(resp))
         /\ pc' = IF assets' = <<>> THEN "done" ELSE "loop"
    /\ UNCHANGED <<script, idx, fetched, disk, dpc, url, r, gets, succeeded,
                   last_msg, runs>>
    /\ UNCHANGED <<hdri_assets, assets_data, max_retries, got, pauses, saved>>
    /\ UNCHANGED callVars

\* lines 66-73
CrawlCall ==
    /\ script = "crawl_360" /\ pc = "loop"
    /\ idx < Len(assets)
    /\ url' = GetHdriLink(assets[idx + 1], "4k").hdr
    /\ fetched' = Append(fetched, url')
    /\ dpc' = "check"
    /\ pc' = "call"
    /\ UNCHANGED <<script, idx, assets, disk, r, gets, succeeded, last_msg,
                   runs, list_resp>>
    /\ UNCHANGED <<hdri_assets, assets_data, max_retries, got, pauses, saved>>
    /\ UNCHANGED callVars

\* lines 38-42
DownloadCheck ==
    /\ script = "crawl_360" /\ dpc = "check"
    /\ IF Exists(disk, Filename(url))
       THEN dpc' = "returned" /\ last_msg' = "skip"
       ELSE dpc' = "request" /\ UNCHANGED last_msg
    /\ UNCHANGED <<script, pc, idx, fetched, assets, disk, url, r, gets,
                   succeeded, runs, list_resp>>
    /\ UNCHANGED <<hdri_assets, assets_data, max_retries, got, pauses, saved>>
    /\ UNCHANGED callVars

\* lines 45-46 and 51-54
DownloadRequest ==
    /\ script = "crawl_360" /\ dpc = "request"
    /\ gets' = Store(gets, url, Count(gets, url) + 1)
    /\ \E o \in DownloadResponses \cup {TransportError} :
         \/ /\ o = TransportError
            /\ dpc' = "returned" /\ last_msg' = "error"
            /\ UNCHANGED r
         \/ /\ o # TransportError /\ o.status_code # 200
            /\ dpc' = "returned" /\ last_msg' = "not_found"
            /\ UNCHANGED r
         \/ /\ o # TransportError /\ o.status_code = 200
            /\ r' = o
            /\ dpc' = "open"
            /\ UNCHANGED last_msg
    /\ UNCHANGED <<script, pc, idx, fetched, assets, disk, url, succeeded,
                   runs, list_resp>>
    /\ UNCHANGED <<hdri_assets, assets_data, max_retries, got, pauses, saved>>
    /\ UNCHANGED callVars

\* line 47: open(path, "wb") creates the file empty, or raises OSError
DownloadOpen ==
    /\ script = "crawl_360" /\ dpc = "open"
    /\ \/ /\ disk' = Store(disk, Filename(url), 0)
          /\ dpc' = "stream"
          /\ UNCHANGED last_msg
       \/ /\ dpc' = "returned" /\ last_msg' = "error"
          /\ UNCHANGED disk
    /\ UNCHANGED <<script, pc, idx, fetched, assets, url, r, gets, succeeded,
                   runs, list_resp>>
    /\ UNCHANGED <<hdri_assets, assets_data, max_retries, got, pauses, saved>>
    /\ UNCHANGED callVars

\* lines 48-50 and 53-54: the next chunk is written, or the stream raises and
\* the with block closes the file as it is, or the body has ended
DownloadChunk ==
    /\ script = "crawl_360" /\ dpc = "stream"
    /\ \/ /\ disk[Filename(url)] < BodyChunks
          /\ disk' = Store(disk, Filename(url), disk[Filename(url)] + 1)
          /\ UNCHANGED <<dpc, last_msg, succeeded>>
       \/ /\ disk[Filename(url)] < BodyChunks
          /\ dpc' = "returned" /\ last_msg' = "error"
          /\ UNCHANGED <<disk, succeeded>>
       \/ /\ disk[Filename(url)] = BodyChunks
          /\ dpc' = "returned" /\ last_msg' = "downloaded"
          /\ succeeded' = succeeded \cup {url}
          /\ UNCHANGED disk
    /\ UNCHANGED <<script, pc, idx, fetched, assets, url, r, gets, runs,
                   list_resp>>
    /\ UNCHANGED <<hdri_assets, assets_data, max_retries, got, pauses, saved>>
    /\ UNCHANGED callVars

\* lines 73-74: download_file has returned
CrawlReturn ==
    /\ script = "crawl_360" /\ pc = "call" /\ dpc = "returned"
    /\ idx' = idx + 1
    /\ pc' = "loop"
    /\ NoDownload
    /\ UNCHANGED <<script, fetched, assets, disk, gets, succeeded, last_msg,
                   runs, list_resp>>
    /\ UNCHANGED <<hdri_assets, assets_data, max_retries, got, pauses, saved>>
    /\ UNCHANGED callVars

\* line 66: the loop is exhausted
CrawlFinish ==
    /\ script = "crawl_360" /\ pc = "loop"
    /\ idx >= Len(assets)
    /\ pc' = "done"
    /\ UNCHANGED <<script, idx, fetched, list_resp>>
    /\ UNCHANGED crawlVars
    /\ UNCHANGED harvestOnly
    /\ UNCHANGED callVars

\* the script is invoked again; SAVE_DIR is what the runs before left
CrawlAgain ==
    /\ script = "crawl_360" /\ pc = "done"
    /\ runs < MaxRuns
    /\ runs' = runs + 1
    /\ pc' = "start"
    /\ idx' = 0
    /\ assets' = <<>>
    /\ fetched' = <<>>
    /\ list_resp' = "none"
    /\ last_msg' = "none"
    /\ UNCHANGED <<script, disk, dpc, url, r, gets, succeeded>>
    /\ UNCHANGED harvestOnly
    /\ UNCHANGED callVars

----------------------------------------------------------------------------
(* The specification *)

Init ==
    /\ script \in {"get_json_360", "crawl_360"}
    /\ pc = "start"
    /\ idx = 0
    /\ list_resp = "none"
    /\ hdri_assets = <<>>
    /\ assets_data = <<>>
    \* main calls get_asset_info with the default budget (3); the parameter
    \* is open to every smaller budget as well
    /\ max_retries \in (IF script = "get_json_360" THEN 0..MaxRetries
                        ELSE {MaxRetries})
    /\ cpc = "idle"
    /\ asset_id = ""
    /\ attempt = 0
    /\ response = None
    /\ data = "none"
    /\ files_data = EmptyDict
    /\ asset_info = None
    /\ reqs = <<>>
    /\ sleeps = 0
    /\ ended = {}
    /\ fetched = <<>>
    /\ got = {}
    /\ pauses = 0
    /\ saved = <<>>
    /\ assets = <<>>
    /\ disk = <<>>
    /\ dpc = "idle"
    /\ url = <<>>
    /\ r = None
    /\ gets = <<>>
    /\ succeeded = {}
    /\ last_msg = "none"
    /\ runs = 1

Next ==
    \/ HarvestList
    \/ HarvestCall
    \/ ForAttempt
    \/ RequestInfo
    \/ Fallback
    \/ CheckInfo
    \/ RequestFiles
    \/ BuildRecord
    \/ HarvestStore
    \/ HarvestFinish
    \/ CrawlList
    \/ CrawlCall
    \/ DownloadCheck
    \/ DownloadRequest
    \/ DownloadOpen
    \/ DownloadChunk
    \/ CrawlReturn
    \/ CrawlFinish
    \/ CrawlAgain

Spec == Init /\ [][Next]_vars

----------------------------------------------------------------------------
(* The resolution scan of get_asset_info on its own: a call that has parsed *)
(* its two responses and stands before lines 74-105, for every file listing *)
(* of up to MaxFiles file_info entries                                     *)

\* (3840,2160) has the largest area, (4096,1024) the largest width,
\* (4096,0) no area
ResPairs ==
    { <<1920, 1080>>, <<3840, 2160>>, <<100, 100>>, <<4096, 1024>>,
      <<4096, 0>> }

FileInfos ==
    { NoResolutionKey, FileInfo(<<>>) } \cup { FileInfo(p) : p \in ResPairs }

\* resolution -> format -> file_info with at most `files` entries in all, in
\* at most `groups` resolutions of at least one format each
RECURSIVE HdriListings(_, _)
HdriListings(files, groups) ==
    {<<>>} \cup
    (IF groups = 0 THEN {}
     ELSE UNION { { <<formats>> \o rest :
                      formats \in [1..n -> FileInfos],
                      rest \in HdriListings(files - n, groups - 1) } :
                  n \in 1..files })

RichListings ==
    {EmptyDict} \cup { Listing(h) : h \in HdriListings(MaxFiles, MaxFiles) }

InitRes ==
    /\ script = "get_json_360"
    /\ pc = "call"
    /\ idx = 0
    /\ list_resp = "mapping"
    /\ hdri_assets = <<AssetNames[1]>>
    /\ assets_data = <<>>
    /\ max_retries = MaxRetries
    /\ cpc = "build"
    /\ asset_id = AssetNames[1]
    /\ attempt = 0
    /\ response = [status_code |-> 200, body |-> "object"]
    /\ data = "object"
    /\ files_data \in RichListings
    /\ asset_info = None
    /\ reqs = << [url |-> InfoUrl(asset_id), resp |-> response],
                 [url |-> FilesUrl(asset_id),
                  resp |-> [status_code |-> 200, body |-> "object",
                            listing |-> files_data]] >>
    /\ sleeps = 0
    /\ ended = {}
    /\ fetched = <<AssetNames[1]>>
    /\ got = {}
    /\ pauses = 0
    /\ saved = <<>>
    /\ assets = <<>>
    /\ disk = <<>>
    /\ dpc = "idle"
    /\ url = <<>>
    /\ r = None
    /\ gets = <<>>
    /\ succeeded = {}
    /\ last_msg = "none"
    /\ runs = 1

NextRes == BuildRecord

SpecRes == InitRes /\ [][NextRes]_vars

----------------------------------------------------------------------------
(* Properties *)

Harvesting == script = "get_json_360"
Crawling == script = "crawl_360"

Is404(o) == o # TransportError /\ o.status_code = 404
IsInfo(req) == req.url[1] = "info"
IsFiles(req) == req.url[1] = "files"
LastReq == reqs[Len(reqs)]

\* C1: in an attempt of get_asset_info whose request to /info/{id} answers
\* 404, the fallback is the one further info request of the attempt and goes
\* to /info/{id}_4k; when that answers 404 too, the call returns None at once:
\* no /files request, no pause, no further attempt.
C1_FallbackOnceThenAbsent ==
    (Harvesting /\ cpc # "idle") =>
      /\ \A i \in 1..Len(reqs) : IsInfo(reqs[i]) => i <= 2
      /\ Len(reqs) >= 2 => (IsInfo(reqs[2]) <=> Is404(reqs[1].resp))
      /\ (Len(reqs) = 1 /\ Is404(reqs[1].resp)) => cpc = "got_info"
      /\ (Len(reqs) >= 2 /\ Is404(reqs[1].resp)) =>
            /\ reqs[2].url = <<"info", reqs[1].url[2] \o "_4k">>
            /\ Is404(reqs[2].resp) =>
                 /\ Len(reqs) = 2
                 /\ cpc \in {"checked", "returned"}
                 /\ sleeps = attempt
                 /\ cpc = "returned" => asset_info = None

\* a call that returned None after two 404s with attempts left in its budget
C1_Witness ==
    /\ Harvesting /\ cpc = "returned"
    /\ Len(reqs) = 2 /\ Is404(reqs[1].resp) /\ Is404(reqs[2].resp)
    /\ reqs[1].url = <<"info", "sky">>
    /\ reqs[2].url = <<"info", "sky_4k">>
    /\ asset_info = None
    /\ attempt = 0 /\ max_retries = 3 /\ sleeps = 0

\* every attempt of the call so far, the current one included, ended in a
\* transport exception
AllTransport ==
    /\ ended = {"transport"}
    /\ reqs # <<>> /\ LastReq.resp = TransportError

\* C2: a call get_asset_info(id, max_retries = n), n >= 1, whose attempts all
\* end in a transport exception makes n attempts, pauses once before each
\* re-attempt (n - 1 pauses, none after the last failure) and returns None;
\* main then leaves id out of assets_data and moves on to the next identifier.
C2_TransportRetriesThenAbsent ==
    /\ [](Harvesting /\ cpc # "idle" =>
            /\ sleeps = attempt
            /\ cpc \notin {"for", "returned"} => attempt < max_retries
            /\ (cpc = "returned" /\ AllTransport /\ max_retries >= 1) =>
                  /\ attempt + 1 = max_retries
                  /\ sleeps = max_retries - 1
                  /\ asset_info = None)
    /\ [][(Harvesting /\ cpc = "returned" /\ AllTransport) =>
            /\ assets_data' = assets_data
            /\ fetched[Len(fetched)] \notin DOMAIN assets_data'
            /\ pc' = "loop"
            /\ idx' = idx + 1]_vars

\* the default budget used up by three transport exceptions
C2_Witness ==
    /\ Harvesting /\ cpc = "returned" /\ AllTransport
    /\ max_retries = 3 /\ attempt = 2 /\ sleeps = 2
    /\ asset_info = None

IsStatusFailure(req) ==
    /\ IsInfo(req)
    /\ req.resp # TransportError
    /\ req.resp.status_code = 500

\* C3 as stated: an HTTP-status failure of the info request is not retried,
\* no request of the call follows it.
C3_StatusNotRetried ==
    (Harvesting /\ "status" \in ended /\ cpc \notin {"for", "returned"})
        => reqs = <<>>

\* C3, amended: an HTTP-status failure of the info request other than 404 is
\* handled like a transport exception: with attempts left the call pauses and
\* goes on to the next attempt, on the last attempt it returns None.
C3_StatusFailureRetried ==
    (Harvesting /\ reqs # <<>> /\ IsStatusFailure(LastReq)) =>
      /\ cpc \in {"got_info", "checked", "for", "returned"}
      /\ cpc = "for" =>
            /\ "status" \in ended
            /\ attempt \in 1..(max_retries - 1)
            /\ sleeps = attempt
      /\ cpc = "returned" =>
            /\ "status" \in ended
            /\ attempt = max_retries - 1
            /\ asset_info = None

\* an info request issued in the attempt after one that ended in a 500
C3_Witness ==
    /\ Harvesting /\ ended = {"status"}
    /\ cpc = "got_info" /\ Len(reqs) = 1 /\ IsInfo(reqs[1])
    /\ attempt = 1 /\ sleeps = 1

\* the [w, h] pairs of a listing
Pairs(listing) ==
    IF ~listing.has_hdri THEN {}
    ELSE UNION { { listing.hdri[i][j].resolution :
                     j \in { k \in 1..Len(listing.hdri[i]) :
                               /\ listing.hdri[i][k].has_resolution
                               /\ listing.hdri[i][k].resolution # <<>> } } :
                 i \in 1..Len(listing.hdri) }

Area(p) == p[1] * p[2]

IsMaxAreaOf(p, pairs) == p \in pairs /\ \A q \in pairs : Area(q) <= Area(p)

\* C4 as stated: max_resolution is a pair of maximum area among all the
\* resolution pairs of the listing, and (8192, 4096) when there is none.
C4_MaxAreaOfAll ==
    (Harvesting /\ cpc = "returned" /\ asset_info # None) =>
        IF Pairs(files_data) = {}
        THEN asset_info.max_resolution = <<8192, 4096>>
        ELSE IsMaxAreaOf(asset_info.max_resolution, Pairs(files_data))

\* C4, amended: max_resolution is a pair of maximum area among the resolution
\* pairs of positive area (w * h > 0), and (8192, 4096) when the listing
\* holds no pair of positive area.
C4_MaxAreaOfPositive ==
    (Harvesting /\ cpc = "returned" /\ asset_info # None) =>
        LET positive == { p \in Pairs(files_data) : Area(p) > 0 }
        IN IF positive = {}
           THEN asset_info.max_resolution = <<8192, 4096>>
           ELSE IsMaxAreaOf(asset_info.max_resolution, positive)

\* the listing (1920,1080), (3840,2160), (100,100) and its result
C4_Witness ==
    /\ Harvesting /\ cpc = "returned" /\ asset_info # None
    /\ Pairs(files_data) = { <<1920, 1080>>, <<3840, 2160>>, <<100, 100>> }
    /\ asset_info.max_resolution = <<3840, 2160>>

\* the identifiers main is to process: the first SliceCap of the listing
Processed == SubSeq(hdri_assets, 1,
                    IF Len(hdri_assets) < SliceCap THEN Len(hdri_assets)
                    ELSE SliceCap)

\* C5 as stated: a run with a non-empty listing invokes save_to_json exactly
\* once.
C5_PersistsExactlyOnce ==
    (Harvesting /\ pc = "done" /\ hdri_assets # <<>>) => Len(saved) = 1

\* C5, amended: identifiers are fetched one at a time in listing order, the
\* first SliceCap only, with a pause after each; save_to_json is invoked once,
\* after the last fetch has returned, when at least one fetch returned a
\* record and not at all when none did; the collection it receives has as key
\* set the processed identifiers whose fetch returned a record.
C5_OrderedThenPersistIfAny ==
    Harvesting =>
      /\ Len(fetched) <= Len(Processed)
      /\ fetched = SubSeq(Processed, 1, Len(fetched))
      /\ Len(fetched) = idx + (IF pc = "call" THEN 1 ELSE 0)
      /\ pauses = idx
      /\ got \subseteq Range(fetched)
      /\ DOMAIN assets_data = got
      /\ saved # <<>> =>
            /\ pc = "done" /\ cpc = "idle"
            /\ Len(saved) = 1
            /\ DOMAIN saved[1] = got
      /\ (pc = "done" /\ hdri_assets # <<>>) =>
            /\ fetched = Processed
            /\ pauses = Len(Processed)
            /\ Len(saved) = (IF got = {} THEN 0 ELSE 1)

\* a finished run over a listing longer than the slice, one fetch of which
\* returned a record and one did not
C5_Witness ==
    /\ Harvesting /\ pc = "done"
    /\ Len(hdri_assets) > SliceCap
    /\ Len(fetched) = SliceCap
    /\ got # {} /\ got # Range(fetched)
    /\ Len(saved) = 1

\* C6: once a call of download_file received 200 for a URL and wrote the
\* whole body, no later step issues a request for that URL or changes its
\* file: a second call skips.
C6_SkipOnExists ==
    [][\A u \in succeeded :
          /\ Count(gets', u) = Count(gets, u)
          /\ Filename(u) \in DOMAIN disk /\ Filename(u) \in DOMAIN disk'
          /\ disk'[Filename(u)] = disk[Filename(u)]]_vars

\* a second call for a URL downloaded by the run before has skipped
C6_Witness ==
    /\ Crawling /\ runs = 2
    /\ dpc = "returned" /\ last_msg = "skip"
    /\ url \in succeeded
    /\ Count(gets, url) = 1
    /\ disk[Filename(url)] = BodyChunks

IsFilesFailure(req) ==
    /\ IsFiles(req)
    /\ req.resp # TransportError
    /\ req.resp.status_code # 200

\* C7: after an info request that answered a mapping, a /files response other
\* than 200 counts as an empty listing: the call returns a record with
\* max_resolution (8192, 4096) in the same attempt.
C7_FilesFailureDegrades ==
    (Harvesting /\ reqs # <<>> /\ IsFilesFailure(LastReq)) =>
      /\ cpc \in {"build", "returned"}
      /\ files_data = EmptyDict
      /\ sleeps = attempt
      /\ (cpc = "returned" /\ data = "object") =>
            /\ asset_info # None
            /\ asset_info.max_resolution = <<8192, 4096>>

\* a record returned after a 500 on /files
C7_Witness ==
    /\ Harvesting /\ cpc = "returned" /\ reqs # <<>>
    /\ IsFiles(LastReq) /\ LastReq.resp # TransportError
    /\ LastReq.resp.status_code = 500
    /\ asset_info # None
    /\ asset_info.max_resolution = <<8192, 4096>>

ListingFailed == list_resp \in {"exc", "status", "garbage", "array"}

\* C8: in both scripts a failed listing request (transport failure, error
\* status, a body that is no mapping) gives an empty result and main ends the
\* run: nothing is handed to get_asset_info or download_file, no request is
\* issued, nothing is saved.
C8_FailedListingEndsRun ==
    ListingFailed =>
      /\ pc = "done"
      /\ idx = 0
      /\ fetched = <<>>
      /\ cpc = "idle" /\ dpc = "idle"
      /\ reqs = <<>>
      /\ Harvesting => hdri_assets = <<>> /\ saved = <<>> /\ assets_data = <<>>
      /\ Crawling => assets = <<>>

\* a second downloader run whose listing failed, next to the files of the
\* first
C8_Witness ==
    /\ Crawling /\ runs = 2 /\ list_resp = "status"
    /\ pc = "done" /\ disk # <<>>

\* C9 as stated: every request of a call targets id or id_4k.
C9_SuffixAtMostOnce ==
    (Harvesting /\ cpc # "idle") =>
        \A i \in 1..Len(reqs) :
            reqs[i].url[2] \in { fetched[Len(fetched)],
                                 fetched[Len(fetched)] \o "_4k" }

\* C10 as stated: a file in SAVE_DIR that no call is writing comes from a
\* download that received 200 and wrote the whole body.
C10_OnlyCompleteFiles ==
    Crawling =>
        \A f \in DOMAIN disk :
            (dpc = "stream" /\ f = Filename(url))
            \/ \E u \in succeeded : Filename(u) = f

====
